---- MODULE Spec2Model ----
(***************************************************************************)
(* The IVF-PQ index of raft (cpp/include/raft/neighbors/ivf_pq_types.hpp)  *)
(* as a state machine: the scalar fields and the seven owned arrays of an  *)
(* index, the device heap the arrays live in, and the operations           *)
(* construct / allocate / write-through-an-accessor.                       *)
(*                                                                         *)
(* uint32_t values are kept at their width.  TLC's integers stop at        *)
(* 2^31-1, so a uint32_t is a pair <<hi, lo>> of 16-bit limbs and the      *)
(* arithmetic of the source (+, -, *, /, %, <<) is done on limbs, modulo   *)
(* 2^32.                                                                   *)
(***************************************************************************)
EXTENDS Integers, Sequences, FiniteSets, TLC

VARIABLES idx,    \* slot -> the index object living there (or none)
          heap,   \* sequence of device buffers ever allocated, by buffer id
          last,   \* the last operation called, its arguments and its outcome
          calc,   \* a call of a function that takes no index:
                  \* calculate_pq_dim, or a factory or trait of device_mdspan.hpp
          views   \* the views of the index's arrays that code outside holds

vars == <<idx, heap, last, calc, views>>

-----------------------------------------------------------------------------
(* uint32_t                                                                *)

Limb == 65536

U32(n) == <<n \div Limb, n % Limb>>          \* 0 <= n < 2^31

Hi(x) == x[1]
Lo(x) == x[2]

Zero == U32(0)
One  == U32(1)

\* the top bit is clear: the value fits a TLC integer
IsSmall(x) == Hi(x) < 32768

\* the value of x, for x < 2^31
ToNat(x) == Hi(x) * Limb + Lo(x)

LtW(a, b) == Hi(a) < Hi(b) \/ (Hi(a) = Hi(b) /\ Lo(a) < Lo(b))
LeW(a, b) == a = b \/ LtW(a, b)

AddW(a, b) ==
  LET s == Lo(a) + Lo(b)
  IN  <<(Hi(a) + Hi(b) + s \div Limb) % Limb, s % Limb>>

SubW(a, b) ==
  LET d == Lo(a) - Lo(b)
      borrow == IF d < 0 THEN 1 ELSE 0
  IN  <<(Hi(a) - Hi(b) - borrow) % Limb, d % Limb>>

\* (x * y) mod 2^16 for 16-bit x, y, without leaving 31 bits
MulLow16(x, y) == (x * (y % 256) + ((x * (y \div 256)) % 256) * 256) % Limb

MulW(a, b) ==
  LET a0 == Lo(a) % 256
      a1 == Lo(a) \div 256
      b0 == Lo(b) % 256
      b1 == Lo(b) \div 256
      low == (a0 * b1 + a1 * b0) * 256 + a0 * b0
      high == a1 * b1 + low \div Limb + MulLow16(Hi(a), Lo(b)) + MulLow16(Lo(a), Hi(b))
  IN  <<high % Limb, low % Limb>>

\* unsigned a / b, b # 0
DivW(a, b) ==
  IF b = One THEN a
  ELSE IF ~IsSmall(b) THEN (IF LeW(b, a) THEN One ELSE Zero)
  ELSE IF IsSmall(a) THEN U32(ToNat(a) \div ToNat(b))
  ELSE LET d == ToNat(b)
           m == 2147483647                       \* a = (m + 1) + rest
           rest == ToNat(<<Hi(a) - 32768, Lo(a)>>)
           r1 == (m % d) + 1
           r2 == rest % d
           extra == IF r1 >= d - r2 THEN 1 ELSE 0
       IN  U32(m \div d + rest \div d + extra)

\* unsigned a % b, b # 0
ModW(a, b) == SubW(a, MulW(DivW(a, b), b))

\* 1 << n for n < 32
ShlOne(n) == IF n < 16 THEN <<0, 2 ^ n>> ELSE <<2 ^ (n - 16), 0>>

-----------------------------------------------------------------------------
(* raft/util/integer_utils.hpp, as the getters use it                      *)

\* round_up_safe(x, m): the least multiple of m that is >= x
round_up_safe(x, m) ==
  LET r == ModW(x, m)
  IN  IF r = Zero THEN x ELSE AddW(SubW(x, r), m)

\* round_down_safe(x, m): the greatest multiple of m that is <= x
round_down_safe(x, m) == SubW(x, ModW(x, m))

\* div_rounding_up_unsafe(a, b): ceil(a / b)
div_rounding_up_unsafe(a, b) ==
  LET q == DivW(a, b)
  IN  IF ModW(a, b) = Zero THEN q ELSE AddW(q, One)

-----------------------------------------------------------------------------
(* index::calculate_pq_dim                                                 *)

RECURSIVE pow2_loop(_, _)
pow2_loop(r, d) ==
  IF LeW(AddW(r, r), d) THEN pow2_loop(AddW(r, r), d) ELSE r

\* the same with the halving at dim > 128 only
calculate_pq_dim_above(d0) ==
  LET d == IF LtW(U32(128), d0) THEN DivW(d0, U32(2)) ELSE d0
      r == round_down_safe(d, U32(32))
  IN  IF LtW(Zero, r) THEN r ELSE pow2_loop(One, d)

calculate_pq_dim(d0) ==
  LET d == IF LeW(U32(128), d0) THEN DivW(d0, U32(2)) ELSE d0
      r == round_down_safe(d, U32(32))
  IN  IF LtW(Zero, r) THEN r ELSE pow2_loop(One, d)

-----------------------------------------------------------------------------
(* The index: scalar fields, getters, consistency check                    *)

PER_SUBSPACE == 0
PER_CLUSTER  == 1

\* the getters read the scalar fields only; i is any record that has them
dim(i)       == i.dim_
pq_bits(i)   == i.pq_bits_
pq_dim(i)    == i.pq_dim_
n_lists(i)   == i.n_lists_
metric(i)    == i.metric_
codebook_kind(i)    == i.codebook_kind_
n_nonempty_lists(i) == i.n_nonempty_lists_

dim_ext(i) == round_up_safe(AddW(dim(i), One), U32(8))
pq_len(i)  == div_rounding_up_unsafe(dim(i), pq_dim(i))
rot_dim(i) == MulW(pq_len(i), pq_dim(i))

\* 1 << pq_bits: a shift by 32 or more is undefined; the builds at hand
\* either mask the count to five bits or produce 0
pq_book_size_outcomes(i) ==
  LET b == pq_bits(i)
  IN  IF IsSmall(b) /\ ToNat(b) < 32 THEN {ShlOne(ToNat(b))}
      ELSE {Zero, ShlOne(Lo(b) % 32)}

pq_book_size(i) == ShlOne(ToNat(pq_bits(i)))

size(i) == i.indices_.ext[1]

\* the same with the range [3,8], and with the range test alone
check_consistency_from3(i) ==
  /\ LeW(U32(3), pq_bits(i)) /\ LeW(pq_bits(i), U32(8))
  /\ ModW(MulW(pq_bits(i), pq_dim(i)), U32(8)) = Zero
check_consistency_bits_only(i) ==
  LeW(U32(4), pq_bits(i)) /\ LeW(pq_bits(i), U32(8))

\* check_consistency passes
check_consistency(i) ==
  /\ LeW(U32(4), pq_bits(i)) /\ LeW(pq_bits(i), U32(8))
  /\ ModW(MulW(pq_bits(i), pq_dim(i)), U32(8)) = Zero

KnownKind(k) == k \in {PER_SUBSPACE, PER_CLUSTER}

\* the same with the two cases exchanged
make_pq_centers_extents_swapped(i, book) ==
  IF codebook_kind(i) = PER_SUBSPACE
  THEN <<n_lists(i), book, pq_len(i)>>
  ELSE <<pq_dim(i), book, pq_len(i)>>

\* make_pq_centers_extents, for a known codebook kind
make_pq_centers_extents(i, book) ==
  IF codebook_kind(i) = PER_SUBSPACE
  THEN <<pq_dim(i), book, pq_len(i)>>
  ELSE <<n_lists(i), book, pq_len(i)>>

-----------------------------------------------------------------------------
(* Bounds and input sets                                                   *)

MaxBufs      == 14     \* device buffers ever allocated in one run
MaxElements  == 1073741824  \* no device buffer holds this many elements
MaxIndexSize == 2      \* allocate(n): n in 0..MaxIndexSize
MaxCalcDim   == 640    \* calculate_pq_dim is called on 0..MaxCalcDim
MaxAddress   == 300    \* the factories are called on addresses 0..MaxAddress
MaxExtent    == 2      \* and on n_rows, n_cols in 0..MaxExtent
MaxTypes     == 3      \* the traits are asked about lists of 0..MaxTypes types
MaxViews     == 3      \* views held by the code outside at one time

Slots == {1, 2}

ArrayNames == <<"pq_centers_", "pq_dataset_", "indices_", "rotation_matrix_",
                "list_offsets_", "centers_", "centers_rot_">>

NoArgs == [metric |-> "none", codebook_kind |-> 0, n_lists |-> Zero,
           dim |-> Zero, pq_bits |-> Zero, pq_dim |-> Zero,
           n_nonempty_lists |-> Zero]

BigDims == {<<32768, 1>>, <<65535, 65535>>}          \* 2^31 + 1, 2^32 - 1

\* the arguments of the constructor, over the whole width of uint32_t
WideArgs ==
  [metric : {"L2Expanded"},
   codebook_kind : {PER_SUBSPACE, PER_CLUSTER, 2},
   n_lists : {U32(1), U32(8)},
   dim : {U32(n) : n \in {0, 1, 10, 100, 128, 512}} \cup BigDims,
   pq_bits : {U32(n) : n \in {3, 4, 5, 8, 9, 32}},
   pq_dim : {U32(n) : n \in {0, 3, 8, 64}} \cup {<<32768, 0>>},
   n_nonempty_lists : {Zero}]

\* a few constructor calls, for the runs that also write through the views
NarrowArgs ==
  [metric : {"L2Expanded"},
   codebook_kind : {PER_SUBSPACE},
   n_lists : {U32(2)},
   dim : {U32(10)},
   pq_bits : {U32(5), U32(8)},
   pq_dim : {U32(3)},
   n_nonempty_lists : {Zero}]

-----------------------------------------------------------------------------
(* The device heap                                                         *)

\* the number of elements of an array of these extents, up to MaxElements
SatNat(e) == IF IsSmall(e) /\ ToNat(e) < MaxElements THEN ToNat(e) ELSE MaxElements
SatMul(a, b) ==
  IF a = 0 \/ b = 0 THEN 0
  ELSE IF a >= MaxElements \/ b >= MaxElements \/ a > (MaxElements - 1) \div b
       THEN MaxElements
       ELSE a * b
RECURSIVE NumElements(_)
NumElements(ext) ==
  IF ext = <<>> THEN 1 ELSE SatMul(SatNat(Head(ext)), NumElements(Tail(ext)))

\* the device can hold an array of these extents
Fits(ext) == NumElements(ext) < MaxElements

\* the allocations of one operation, in order: failAt = k > 0 says the
\* k-th throws, 0 that none does.  One the device cannot hold throws; any
\* other may.
AllocOutcome(exts, failAt) ==
  /\ failAt \in 0..Len(exts)
  /\ \A k \in 1..Len(exts) : (failAt = 0 \/ k < failAt) => Fits(exts[k])

\* make_device_mdarray: a buffer of uninitialized storage
FreshBuf == [released |-> 0, init |-> FALSE, v |-> 0]

\* a buffer that was allocated and released within one operation
DeadBuf == [released |-> 1, init |-> FALSE, v |-> 0]

RECURSIVE Repeat(_, _)
Repeat(x, n) == IF n = 0 THEN <<>> ELSE <<x>> \o Repeat(x, n - 1)

\* ~mdarray / move assignment over an mdarray: its buffer goes back, and
\* what it held is gone (and the same with the buffer kept)
Release_leak(h, b) == h
Release(h, b) == [h EXCEPT ![b] = [released |-> @.released + 1, init |-> FALSE, v |-> 0]]

\* a slot holds one object: not yet constructed, constructed ("live", or
\* "moved" once it was moved from), none because its constructor threw, or
\* gone because it was destroyed
Unborn  == [state |-> "unborn"]
NoIndex == [state |-> "none"]
Gone    == [state |-> "gone"]

-----------------------------------------------------------------------------
(* index::index                                                            *)

\* the scalar fields as the member initializers set them
InitFields(a) ==
  [metric_ |-> a.metric,
   codebook_kind_ |-> a.codebook_kind,
   n_lists_ |-> a.n_lists,
   dim_ |-> a.dim,
   pq_bits_ |-> a.pq_bits,
   pq_dim_ |-> IF a.pq_dim = Zero THEN calculate_pq_dim(a.dim) ELSE a.pq_dim,
   n_nonempty_lists_ |-> a.n_nonempty_lists]

\* the same with n_lists offsets, and with centers as wide as dim
InitExtents_short(f, book) ==
  <<make_pq_centers_extents(f, book),
    <<Zero, DivW(MulW(pq_dim(f), pq_bits(f)), U32(8))>>,
    <<Zero>>,
    <<rot_dim(f), dim(f)>>,
    <<n_lists(f)>>,
    <<n_lists(f), dim_ext(f)>>,
    <<n_lists(f), rot_dim(f)>> >>
InitExtents_dim(f, book) ==
  <<make_pq_centers_extents(f, book),
    <<Zero, DivW(MulW(pq_dim(f), pq_bits(f)), U32(8))>>,
    <<Zero>>,
    <<rot_dim(f), dim(f)>>,
    <<AddW(n_lists(f), One)>>,
    <<n_lists(f), dim(f)>>,
    <<n_lists(f), rot_dim(f)>> >>

\* the extents of the seven arrays, in the order the members are declared
InitExtents(f, book) ==
  <<make_pq_centers_extents(f, book),
    <<Zero, DivW(MulW(pq_dim(f), pq_bits(f)), U32(8))>>,
    <<Zero>>,
    <<rot_dim(f), dim(f)>>,
    <<AddW(n_lists(f), One)>>,
    <<n_lists(f), dim_ext(f)>>,
    <<n_lists(f), rot_dim(f)>> >>

NewIndex(f, ext, base) ==
  [state |-> "live",
   metric_ |-> f.metric_, codebook_kind_ |-> f.codebook_kind_,
   n_lists_ |-> f.n_lists_, dim_ |-> f.dim_, pq_bits_ |-> f.pq_bits_,
   pq_dim_ |-> f.pq_dim_, n_nonempty_lists_ |-> f.n_nonempty_lists_,
   pq_centers_      |-> [buf |-> base + 1, ext |-> ext[1]],
   pq_dataset_      |-> [buf |-> base + 2, ext |-> ext[2]],
   indices_         |-> [buf |-> base + 3, ext |-> ext[3]],
   rotation_matrix_ |-> [buf |-> base + 4, ext |-> ext[4]],
   list_offsets_    |-> [buf |-> base + 5, ext |-> ext[5]],
   centers_         |-> [buf |-> base + 6, ext |-> ext[6]],
   centers_rot_     |-> [buf |-> base + 7, ext |-> ext[7]]]

\* failAt = k in 1..7: the k-th make_device_mdarray throws; 0: none does
Construct(s, a, failAt, book) ==
  /\ idx[s].state = "unborn"
  /\ Len(heap) + 7 <= MaxBufs
  /\ KnownKind(a.codebook_kind) => AllocOutcome(InitExtents(InitFields(a), book), failAt)
  /\ LET f == InitFields(a)
         done(r) == [op |-> "construct", slot |-> s, args |-> a, n |-> 0, result |-> r]
     IN  IF ~KnownKind(codebook_kind(f))
         THEN \* RAFT_FAIL in make_pq_centers_extents, before any allocation
              /\ last' = done("logic_error")
              /\ idx' = [idx EXCEPT ![s] = NoIndex]
              /\ UNCHANGED heap
         ELSE IF failAt > 0
         THEN \* the members already built are destroyed
              /\ last' = done("bad_alloc")
              /\ heap' = heap \o Repeat(DeadBuf, failAt - 1)
              /\ idx' = [idx EXCEPT ![s] = NoIndex]
         ELSE IF ~check_consistency(f)
         THEN \* RAFT_EXPECTS in the constructor body: all seven go back
              /\ last' = done("logic_error")
              /\ heap' = heap \o Repeat(DeadBuf, 7)
              /\ idx' = [idx EXCEPT ![s] = NoIndex]
         ELSE /\ last' = done("ok")
              /\ heap' = heap \o Repeat(FreshBuf, 7)
              /\ idx' = [idx EXCEPT ![s] = NewIndex(f, InitExtents(f, book), Len(heap))]
  /\ UNCHANGED <<calc, views>>

-----------------------------------------------------------------------------
(* index::allocate                                                         *)

\* the extents of the new pq_dataset_: index_size rows of the old width
\* (and the same with the old row count)
pq_dataset_extents_keep(i, n) == <<i.pq_dataset_.ext[1], i.pq_dataset_.ext[2]>>
pq_dataset_extents(i, n) == <<U32(n), i.pq_dataset_.ext[2]>>

\* member = make_device_mdarray(...): the member now owns buffer b
\* (and the same with list_offsets_ re-seated on that buffer too, or with the
\* row count stored in pq_dim_ as well, or with the member resized where
\* it is)
ReplaceArray_inplace(i, name, b, ext) ==
  [i EXCEPT ![name] = [buf |-> @.buf, ext |-> ext]]
ReplaceArray_clobber(i, name, b, ext) ==
  [i EXCEPT ![name] = [buf |-> b, ext |-> ext], !.pq_dim_ = ext[1]]
ReplaceArray_slip(i, name, b, ext) ==
  [i EXCEPT ![name] = [buf |-> b, ext |-> ext],
            !.list_offsets_ = [buf |-> b, ext |-> @.ext]]
ReplaceArray(i, name, b, ext) == [i EXCEPT ![name] = [buf |-> b, ext |-> ext]]

\* failAt = 1: the allocation of the new pq_dataset throws; 2: that of the
\* new indices throws; 0: neither
Allocate(s, n, failAt) ==
  /\ idx[s].state = "live"
  /\ Len(heap) + 2 <= MaxBufs
  /\ AllocOutcome(<<pq_dataset_extents(idx[s], n), <<U32(n)>> >>, failAt)
  /\ LET i == idx[s]
         done(r) == [op |-> "allocate", slot |-> s, args |-> NoArgs, n |-> n, result |-> r]
         b1 == Len(heap) + 1
         b2 == Len(heap) + 2
         \* pq_dataset_ = make_device_mdarray(..., index_size, pq_dataset_.extent(1))
         i1 == ReplaceArray(i, "pq_dataset_", b1, pq_dataset_extents(i, n))
         h1 == Release(Append(heap, FreshBuf), i.pq_dataset_.buf)
         \* indices_ = make_device_mdarray(..., index_size)
         i2 == ReplaceArray(i1, "indices_", b2, <<U32(n)>>)
         h2 == Release(Append(h1, FreshBuf), i.indices_.buf)
     IN  IF failAt = 1
         THEN /\ last' = done("bad_alloc")
              /\ UNCHANGED <<idx, heap>>
         ELSE IF failAt = 2
         THEN /\ last' = done("bad_alloc")
              /\ idx' = [idx EXCEPT ![s] = i1]
              /\ heap' = h1
         ELSE /\ last' = done(IF check_consistency(i2) THEN "ok" ELSE "logic_error")
              /\ idx' = [idx EXCEPT ![s] = i2]
              /\ heap' = h2
  /\ UNCHANGED <<calc, views>>

-----------------------------------------------------------------------------
(* Code outside the index writes through the views the accessors return    *)

\* a store through a view: the array's storage now holds v
Write(s, name, v) ==
  /\ idx[s].state = "live"
  /\ NumElements(idx[s][name].ext) > 0
  /\ heap' = [heap EXCEPT ![idx[s][name].buf] = [@ EXCEPT !.init = TRUE, !.v = v]]
  /\ UNCHANGED <<idx, last, calc, views>>

\* the code that populates the index stores v through all seven views
RECURSIVE WriteArrays(_, _, _, _)
WriteArrays(h, i, k, v) ==
  IF k = 0 THEN h
  ELSE LET a == i[ArrayNames[k]]
           h1 == IF NumElements(a.ext) > 0
                 THEN [h EXCEPT ![a.buf] = [@ EXCEPT !.init = TRUE, !.v = v]]
                 ELSE h
       IN  WriteArrays(h1, i, k - 1, v)
WriteAll(s, v) ==
  /\ idx[s].state = "live"
  /\ heap' = WriteArrays(heap, idx[s], Len(ArrayNames), v)
  /\ heap' # heap
  /\ UNCHANGED <<idx, last, calc, views>>

\* an accessor: member.view(), a view of the buffer the member owns now
view_of(s, name) == [slot |-> s, name |-> name, buf |-> idx[s][name].buf]

\* the code outside calls an accessor and keeps the view
GetView(s, name) ==
  /\ idx[s].state = "live"
  /\ view_of(s, name) \notin views
  /\ Cardinality(views) < MaxViews
  /\ views' = views \cup {view_of(s, name)}
  /\ UNCHANGED <<idx, heap, last, calc>>

\* the code outside stores v through a view it holds, while the storage the
\* view refers to exists
WriteThrough(w, v) ==
  /\ w \in views
  /\ heap[w.buf].released = 0
  /\ NumElements(idx[w.slot][w.name].ext) > 0
  /\ heap' = [heap EXCEPT ![w.buf] = [@ EXCEPT !.init = TRUE, !.v = v]]
  /\ heap' # heap
  /\ UNCHANGED <<idx, last, calc, views>>

-----------------------------------------------------------------------------
(* index(index&&), operator=(index&&), ~index(): all defaulted, so each    *)
(* acts member by member                                                   *)

\* what is left of an index that was moved from: the scalars are copied, and
\* the seven arrays own nothing any more
RECURSIVE DropArrays(_, _)
DropArrays(i, k) ==
  IF k = 0 THEN i
  ELSE DropArrays([i EXCEPT ![ArrayNames[k]] = [buf |-> 0, ext |-> @.ext]], k - 1)
MovedFrom(i) == [DropArrays(i, Len(ArrayNames)) EXCEPT !.state = "moved"]

HasMembers(i) == i.state \in {"live", "moved"}

\* the members of i are destroyed: every buffer one of them owns goes back
RECURSIVE ReleaseArrays(_, _, _)
ReleaseArrays(h, i, k) ==
  IF k = 0 THEN h
  ELSE LET b == i[ArrayNames[k]].buf
       IN  ReleaseArrays(IF b = 0 THEN h ELSE Release(h, b), i, k - 1)

did(op, s) == [op |-> op, slot |-> s, args |-> NoArgs, n |-> 0, result |-> "ok"]

\* index t(std::move(s))
MoveConstruct(s, t) ==
  /\ s # t
  /\ idx[s].state = "live"
  /\ idx[t].state = "unborn"
  /\ idx' = [idx EXCEPT ![t] = idx[s], ![s] = MovedFrom(idx[s])]
  /\ last' = did("move", t)
  /\ UNCHANGED <<heap, calc, views>>

\* the same without giving back what t owned
MoveAssign_leak(s, t) ==
  /\ s # t
  /\ idx[s].state = "live"
  /\ HasMembers(idx[t])
  /\ idx' = [idx EXCEPT ![t] = idx[s], ![s] = MovedFrom(idx[s])]
  /\ last' = did("move", t)
  /\ UNCHANGED <<heap, calc, views>>

\* t = std::move(s): what t owned goes back, t takes what s owned
MoveAssign(s, t) ==
  /\ s # t
  /\ idx[s].state = "live"
  /\ HasMembers(idx[t])
  /\ heap' = ReleaseArrays(heap, idx[t], Len(ArrayNames))
  /\ idx' = [idx EXCEPT ![t] = idx[s], ![s] = MovedFrom(idx[s])]
  /\ last' = did("move", t)
  /\ UNCHANGED <<calc, views>>

\* ~index()
Destroy(s) ==
  /\ HasMembers(idx[s])
  /\ heap' = ReleaseArrays(heap, idx[s], Len(ArrayNames))
  /\ idx' = [idx EXCEPT ![s] = Gone]
  /\ last' = did("destroy", s)
  /\ UNCHANGED <<calc, views>>

-----------------------------------------------------------------------------
(* raft/core/device_mdspan.hpp: make_device_aligned_matrix_view            *)

\* detail::alignment::value, and alignTo(p, a): p rounded up to a multiple
\* of a
alignment_value == 128
alignTo(p, a) == ((p + a - 1) \div a) * a

NoView == [data_handle |-> -1, extents |-> <<>>]

\* assert(ptr == alignTo(ptr, alignment)) is compiled out when NDEBUG is
\* defined; where it is compiled in, a failure aborts.  Nothing here reads
\* or writes an element.
make_device_aligned_matrix_view(ptr, n_rows, n_cols, ndebug) ==
  IF ~ndebug /\ ptr # alignTo(ptr, alignment_value)
  THEN [pc |-> "aborted", view |-> NoView]
  ELSE [pc |-> "returned",
        view |-> [data_handle |-> ptr, extents |-> <<n_rows, n_cols>>]]

-----------------------------------------------------------------------------
(* raft/core/device_mdspan.hpp: the traits                                 *)

\* a type is an mdspan whose accessor is a host_device_accessor of one
\* memory_type, or no mdspan at all
memory_types == {"host", "device", "managed"}
Types ==
  [mdspan : {TRUE}, mem : memory_types] \cup {[mdspan |-> FALSE, mem |-> "none"]}

\* raft/core/mdspan.hpp and raft/core/host_device_accessor.hpp
is_mdspan_v(T) == T.mdspan
is_host_accessible(T)    == T.mem \in {"host", "managed"}
is_device_accessible(T)  == T.mem \in {"device", "managed"}
is_managed_accessible(T) == T.mem = "managed"

\* std::conjunction_v over a list of traits
RECURSIVE conjunction_v(_)
conjunction_v(Bn) ==
  IF Bn = <<>> THEN TRUE
  ELSE IF Head(Bn) THEN conjunction_v(Tail(Bn)) ELSE FALSE

\* the same with every mdspan taken
is_device_mdspan_any(T, B) == B

\* detail::is_device_mdspan<T, B>: false_type, but for B = true the
\* accessor's is_device_accessible
is_device_mdspan(T, B) == IF B THEN is_device_accessible(T) ELSE FALSE
is_device_mdspan_t(T) == is_device_mdspan(T, is_mdspan_v(T))
is_device_mdspan_v(Tn) ==
  conjunction_v([k \in 1..Len(Tn) |-> is_device_mdspan_t(Tn[k])])

is_managed_mdspan(T, B) == IF B THEN is_managed_accessible(T) ELSE FALSE
is_managed_mdspan_t(T) == is_managed_mdspan(T, is_mdspan_v(T))
is_managed_mdspan_v(Tn) ==
  conjunction_v([k \in 1..Len(Tn) |-> is_managed_mdspan_t(Tn[k])])

\* raft/core/host_mdspan.hpp: the same over is_host_accessible
is_host_mdspan(T, B) == IF B THEN is_host_accessible(T) ELSE FALSE
is_host_mdspan_v(Tn) ==
  conjunction_v([k \in 1..Len(Tn) |-> is_host_mdspan(Tn[k], is_mdspan_v(Tn[k]))])

-----------------------------------------------------------------------------
(* Specifications                                                          *)

NoCall == [pc |-> "idle", dim |-> Zero, result |-> Zero]

Init ==
  /\ idx = [s \in Slots |-> Unborn]
  /\ heap = <<>>
  /\ views = {}
  /\ last = [op |-> "none", slot |-> 1, args |-> NoArgs, n |-> 0, result |-> "ok"]
  /\ calc = NoCall

\* what the code outside writes: one value that stands for "written"
ElementValues(name) == {1}

ConstructNarrow ==
  /\ idx[1].state = "unborn"
  /\ \E a \in NarrowArgs, k \in 0..7 :
       \E book \in pq_book_size_outcomes(InitFields(a)) : Construct(1, a, k, book)
ConstructWide ==
  /\ idx[1].state = "unborn"
  /\ \E a \in WideArgs, k \in 0..7 :
       \E book \in pq_book_size_outcomes(InitFields(a)) : Construct(1, a, k, book)
AllocateAny ==
  /\ idx[1].state = "live"
  /\ \E n \in 0..MaxIndexSize, k \in 0..2 : Allocate(1, n, k)
WriteAny ==
  /\ idx[1].state = "live"
  /\ \E k \in 1..Len(ArrayNames) :
       \E v \in ElementValues(ArrayNames[k]) : Write(1, ArrayNames[k], v)

\* construct, allocate and write, on a few parameter sets
Next == ConstructNarrow \/ AllocateAny \/ WriteAny
Spec == Init /\ [][Next]_vars

\* construct and allocate, over the width of the parameters
NextWide == ConstructWide \/ AllocateAny
SpecWide == Init /\ [][NextWide]_vars

\* calculate_pq_dim on its own
CalcDims == {U32(n) : n \in 0..MaxCalcDim} \cup BigDims
InitCalc ==
  /\ idx = [s \in Slots |-> Unborn]
  /\ heap = <<>>
  /\ views = {}
  /\ last = [op |-> "none", slot |-> 1, args |-> NoArgs, n |-> 0, result |-> "ok"]
  /\ \E d \in CalcDims : calc = [pc |-> "call", dim |-> d, result |-> Zero]
CallCalculatePqDim ==
  /\ calc.pc = "call"
  /\ calc' = [calc EXCEPT !.pc = "done", !.result = calculate_pq_dim(calc.dim)]
  /\ UNCHANGED <<idx, heap, last, views>>
NextCalc == CallCalculatePqDim
SpecCalc == InitCalc /\ [][NextCalc]_vars

\* make_device_aligned_matrix_view on its own, in both kinds of build
InitView ==
  /\ idx = [s \in Slots |-> Unborn]
  /\ heap = <<>>
  /\ views = {}
  /\ last = [op |-> "none", slot |-> 1, args |-> NoArgs, n |-> 0, result |-> "ok"]
  /\ \E p \in 0..MaxAddress, r \in 0..MaxExtent, c \in 0..MaxExtent, nd \in BOOLEAN :
       calc = [pc |-> "call", ptr |-> p, n_rows |-> r, n_cols |-> c, ndebug |-> nd,
               view |-> NoView]
CallMakeAlignedView ==
  /\ calc.pc = "call"
  /\ LET r == make_device_aligned_matrix_view(calc.ptr, calc.n_rows, calc.n_cols,
                                               calc.ndebug)
     IN  calc' = [calc EXCEPT !.pc = r.pc, !.view = r.view]
  /\ UNCHANGED <<idx, heap, last, views>>
NextView == CallMakeAlignedView
SpecView == InitView /\ [][NextView]_vars

\* the traits asked about a list of types
TypeLists == UNION {[1..n -> Types] : n \in 0..MaxTypes}
InitTraits ==
  /\ idx = [s \in Slots |-> Unborn]
  /\ heap = <<>>
  /\ views = {}
  /\ last = [op |-> "none", slot |-> 1, args |-> NoArgs, n |-> 0, result |-> "ok"]
  /\ \E Tn \in TypeLists :
       calc = [pc |-> "call", Tn |-> Tn, device |-> FALSE, managed |-> FALSE,
               host |-> FALSE]
EvalTraits ==
  /\ calc.pc = "call"
  /\ calc' = [calc EXCEPT !.pc = "done",
                          !.device = is_device_mdspan_v(calc.Tn),
                          !.managed = is_managed_mdspan_v(calc.Tn),
                          !.host = is_host_mdspan_v(calc.Tn)]
  /\ UNCHANGED <<idx, heap, last, views>>
NextTraits == EvalTraits
SpecTraits == InitTraits /\ [][NextTraits]_vars

\* construct and allocate(1), with views taken and written through
GetViewAny ==
  /\ idx[1].state = "live"
  /\ \E k \in 1..Len(ArrayNames) : GetView(1, ArrayNames[k])
WriteThroughAny == \E w \in views : WriteThrough(w, 1)
AllocateOne ==
  /\ idx[1].state = "live"
  /\ \E k \in 0..2 : Allocate(1, 1, k)
NextViews == ConstructNarrow \/ AllocateOne \/ GetViewAny \/ WriteThroughAny
SpecViews == Init /\ [][NextViews]_vars

\* two index objects: construct, allocate, write, move and destroy
ConstructEither ==
  \E s \in Slots :
    /\ idx[s].state = "unborn"
    /\ \E a \in NarrowArgs, k \in 0..7 :
         \E book \in pq_book_size_outcomes(InitFields(a)) : Construct(s, a, k, book)
AllocateEither ==
  \E s \in Slots :
    /\ idx[s].state = "live"
    /\ \E n \in 0..MaxIndexSize, k \in 0..2 : Allocate(s, n, k)
WriteEither ==
  \E s \in Slots :
    /\ idx[s].state = "live"
    /\ WriteAll(s, 1)
MoveConstructAny == \E s, t \in Slots : MoveConstruct(s, t)
MoveAssignAny == \E s, t \in Slots : MoveAssign(s, t)
DestroyAny == \E s \in Slots : Destroy(s)
NextMove ==
  \/ ConstructEither \/ AllocateEither \/ WriteEither
  \/ MoveConstructAny \/ MoveAssignAny \/ DestroyAny
SpecMove == Init /\ [][NextMove]_vars

-----------------------------------------------------------------------------
(* Properties                                                              *)

Live(s) == idx[s].state = "live"

\* the last call on the index was a constructor or an allocate that returned
LastOk(op) == last.op = op /\ last.result = "ok"

\* C1: after a constructor that returned, and after each allocate(n) that
\* returned, size(), indices.extent(0) and pq_dataset.extent(0) are one
\* value, 0 after the constructor and n after allocate(n), and pq_dataset
\* is [n, pq_dim * pq_bits / 8] (the uint32_t expression of the constructor).
C1_SizesAgree ==
  \A s \in Slots :
    (Live(s) /\ last.slot = s /\ (LastOk("construct") \/ LastOk("allocate"))) =>
      LET i == idx[s]
          n == IF last.op = "construct" THEN Zero ELSE U32(last.n)
      IN  /\ size(i) = n
          /\ i.indices_.ext = <<n>>
          /\ i.pq_dataset_.ext = <<n, DivW(MulW(pq_dim(i), pq_bits(i)), U32(8))>>

\* C1 witness: a second allocate(1) returned on an index whose rows are 5
\* bytes wide
C1_Witness ==
  /\ Live(1) /\ LastOk("allocate") /\ last.n = 1
  /\ Len(heap) = 11
  /\ idx[1].pq_dataset_.ext = <<U32(1), U32(5)>>
  /\ size(idx[1]) = U32(1)

\* C2: allocate is all-or-nothing (a call that throws leaves the index as it
\* was), so in no reachable state do pq_dataset.extent(0) and
\* indices.extent(0) differ.
C2_AllocateAllOrNothing ==
  \A s \in Slots :
    Live(s) => idx[s].pq_dataset_.ext[1] = idx[s].indices_.ext[1]

\* C3: every index that exists has 4 <= pq_bits <= 8 and pq_bits * pq_dim a
\* multiple of 8 (pq_dim the effective one).  2^16 is a multiple of 8, so
\* pq_dim mod 8 is its low limb mod 8.
C3_BitsConsistent ==
  \A s \in Slots :
    Live(s) =>
      LET b == pq_bits(idx[s])
      IN  /\ IsSmall(b) /\ ToNat(b) \in 4..8
          /\ (ToNat(b) * (Lo(pq_dim(idx[s])) % 8)) % 8 = 0

\* C3 witness: an index with pq_bits = 5 and a derived pq_dim, after an
\* allocate
C3_Witness ==
  /\ Live(1) /\ LastOk("allocate")
  /\ pq_bits(idx[1]) = U32(5) /\ dim(idx[1]) = U32(100) /\ pq_dim(idx[1]) = U32(96)

\* the steps of the index's own operations (a write through a view changes
\* neither the index nor the record of the last call, and allocates nothing)
ConstructStep(s) == idx[s].state = "unborn" /\ idx'[s].state # "unborn"
AllocateStep(s)  == Live(s) /\ (Len(heap') > Len(heap) \/ last' # last)

\* the stored value of the array's cell, when one was written
Cell(s, name) == heap[idx[s][name].buf]

ValidArgs(a) ==
  LET b == a.pq_bits
      d == IF a.pq_dim = Zero THEN calculate_pq_dim(a.dim) ELSE a.pq_dim
  IN  /\ IsSmall(b) /\ ToNat(b) \in 4..8
      /\ (ToNat(b) * (Lo(d) % 8)) % 8 = 0

HalfNat(x) ==
  IF IsSmall(x) THEN ToNat(x) \div 2
  ELSE 1073741824 + ToNat(<<Hi(x) - 32768, Lo(x)>>) \div 2
ReducedDim(x) == IF IsSmall(x) /\ ToNat(x) < 128 THEN ToNat(x) ELSE HalfNat(x)

IsPow2(r) == \E k \in 0..30 : r = 2 ^ k

\* r is what the reference function gives for dim x
IsReferencePqDim(x, r) ==
  LET d == ReducedDim(x)
      m == d - (d % 32)
  IN  IF m # 0 THEN r = m ELSE IsPow2(r) /\ r <= d /\ 2 * r > d

CalcExamples ==
  /\ calc.dim = U32(512) => calc.result = U32(256)
  /\ calc.dim = U32(100) => calc.result = U32(96)
  /\ calc.dim = U32(10) => calc.result = U32(8)

\* C6 as claimed: for every dim, calculate_pq_dim(dim) is the reference
\* function: with d = dim / 2 if dim >= 128 and d = dim otherwise, d rounded
\* down to a multiple of 32 when that is not 0, else the largest power of
\* two <= d.
C6_MatchesReference ==
  calc.pc = "done" =>
    /\ IsSmall(calc.result)
    /\ IsReferencePqDim(calc.dim, ToNat(calc.result))
    /\ CalcExamples

\* C6 as amended: the same for every dim >= 1; for dim = 0, where no power
\* of two is <= d, the result is 1.
C6_MatchesReferenceFromOne ==
  calc.pc = "done" =>
    /\ IsSmall(calc.result)
    /\ calc.dim # Zero => IsReferencePqDim(calc.dim, ToNat(calc.result))
    /\ calc.dim = Zero => calc.result = One
    /\ CalcExamples

\* C6 witness: calculate_pq_dim(512) returned 256
C6_Witness == calc.pc = "done" /\ calc.dim = U32(512) /\ calc.result = U32(256)

Untouched == {"pq_centers_", "rotation_matrix_", "list_offsets_", "centers_", "centers_rot_"}

\* C7: an allocate, whether it returns or throws, leaves pq_centers,
\* rotation_matrix, list_offsets, centers and centers_rot with the buffer,
\* the shape and the contents they had, and list_offsets with n_lists + 1
\* entries.
C7_AllocateFrame ==
  [][\A s \in Slots :
       AllocateStep(s) =>
         /\ \A name \in Untouched :
              /\ idx'[s][name] = idx[s][name]
              /\ heap'[idx[s][name].buf] = heap[idx[s][name].buf]
         /\ idx'[s].list_offsets_.ext = <<AddW(n_lists(idx[s]), One)>>]_vars

\* C7 witness: the five arrays were written and two allocates returned
C7_Witness ==
  /\ Live(1) /\ LastOk("allocate") /\ Len(heap) = 11
  /\ heap[idx[1].pq_dataset_.buf].released = 0
  /\ \A name \in Untouched : Cell(1, name).init /\ Cell(1, name).released = 0

\* the scalar fields of i with the other codebook kind
OtherKind(i) ==
  [i EXCEPT !.codebook_kind_ = IF @ = PER_SUBSPACE THEN PER_CLUSTER ELSE PER_SUBSPACE]

\* C8: pq_centers is [pq_dim, pq_book_size, pq_len] for PER_SUBSPACE and
\* [n_lists, pq_book_size, pq_len] for PER_CLUSTER; the constructor called
\* with the other kind and otherwise the same fields gives the same extents
\* but for the first of pq_centers; a call with any other kind throws,
\* allocates nothing and leaves no index.
C8_PqCentersByKind ==
  /\ \A s \in Slots :
       Live(s) =>
         LET i == idx[s]
             book == pq_book_size(i)
             o == InitExtents(OtherKind(i), book)
         IN  /\ codebook_kind(i) = PER_SUBSPACE =>
                  /\ i.pq_centers_.ext = <<pq_dim(i), book, pq_len(i)>>
                  /\ o[1] = <<n_lists(i), book, pq_len(i)>>
             /\ codebook_kind(i) = PER_CLUSTER =>
                  /\ i.pq_centers_.ext = <<n_lists(i), book, pq_len(i)>>
                  /\ o[1] = <<pq_dim(i), book, pq_len(i)>>
             /\ KnownKind(codebook_kind(i))
             /\ o[2][2] = i.pq_dataset_.ext[2]
             /\ o[4] = i.rotation_matrix_.ext
             /\ o[5] = i.list_offsets_.ext
             /\ o[6] = i.centers_.ext
             /\ o[7] = i.centers_rot_.ext
  /\ (last.op = "construct" /\ ~KnownKind(last.args.codebook_kind)) =>
       /\ last.result = "logic_error"
       /\ idx[last.slot].state = "none"
       /\ heap = <<>>

\* C8 witness: a PER_CLUSTER index with n_lists = 8 and pq_dim = 64, after
\* an allocate
C8_Witness ==
  /\ Live(1) /\ LastOk("allocate")
  /\ codebook_kind(idx[1]) = PER_CLUSTER
  /\ idx[1].pq_centers_.ext = <<U32(8), U32(256), U32(2)>>
  /\ pq_dim(idx[1]) = U32(64)

\* C9: rotation_matrix is [rot_dim, dim], centers [n_lists, dim_ext] and
\* centers_rot [n_lists, rot_dim], for the values the getters return, after
\* the constructor and after every allocate; the constructor called with
\* n_lists = 8, pq_bits = 8, pq_dim = 0, dim = 128 gives pq_dim = 64,
\* pq_book_size = 256, dim_ext = 136, pq_len = 2, rot_dim = 128.
C9_ShapesFollowGetters ==
  \A s \in Slots :
    Live(s) =>
      LET i == idx[s]
      IN  /\ i.rotation_matrix_.ext = <<rot_dim(i), dim(i)>>
          /\ i.centers_.ext = <<n_lists(i), dim_ext(i)>>
          /\ i.centers_rot_.ext = <<n_lists(i), rot_dim(i)>>
          /\ (/\ LastOk("construct") /\ last.slot = s
              /\ last.args.n_lists = U32(8) /\ last.args.pq_bits = U32(8)
              /\ last.args.pq_dim = Zero /\ last.args.dim = U32(128)) =>
               /\ pq_dim(i) = U32(64)
               /\ pq_book_size(i) = U32(256)
               /\ dim_ext(i) = U32(136)
               /\ pq_len(i) = U32(2)
               /\ rot_dim(i) = U32(128)
               /\ i.rotation_matrix_.ext = <<U32(128), U32(128)>>
               /\ i.centers_.ext = <<U32(8), U32(136)>>
               /\ i.centers_rot_.ext = <<U32(8), U32(128)>>

\* C9 witness: dim = 100 with pq_dim = 8 is rotated to 104 dimensions, and
\* two allocates have returned
C9_Witness ==
  /\ Live(1) /\ LastOk("allocate") /\ Len(heap) = 11
  /\ dim(idx[1]) = U32(100) /\ pq_dim(idx[1]) = U32(8)
  /\ idx[1].rotation_matrix_.ext = <<U32(104), U32(100)>>
  /\ idx[1].centers_.ext = <<U32(8), U32(104)>>

\* C10: every index the constructor returns has rot_dim % pq_dim = 0 and
\* rot_dim >= dim.
C10_RotDimCoversDim ==
  \A s \in Slots :
    Live(s) =>
      /\ ModW(rot_dim(idx[s]), pq_dim(idx[s])) = Zero
      /\ LeW(dim(idx[s]), rot_dim(idx[s]))

\* array k of the object in slot s owns buffer b
Owns(s, k, b) == HasMembers(idx[s]) /\ idx[s][ArrayNames[k]].buf = b

\* every buffer has at most one owner, and was released never while it has
\* one and once when it has none
OwnedOrReleasedOnce ==
  /\ \A b \in 1..Len(heap) :
       /\ heap[b].released \in {0, 1}
       /\ heap[b].released = 0 => \E s \in Slots, k \in 1..Len(ArrayNames) : Owns(s, k, b)
  /\ \A s \in Slots, k \in 1..Len(ArrayNames) :
       (HasMembers(idx[s]) /\ idx[s][ArrayNames[k]].buf # 0) =>
         LET b == idx[s][ArrayNames[k]].buf
         IN  /\ b \in 1..Len(heap) /\ heap[b].released = 0
             /\ \A t \in Slots, j \in 1..Len(ArrayNames) :
                  Owns(t, j, b) => (t = s /\ j = k)

\* a step that moves the index in slot s to slot t
MoveStep(s, t) ==
  s # t /\ idx[s].state = "live" /\ idx'[s].state = "moved" /\ idx'[t].state = "live"

\* C11: a move hands all seven buffers to the destination: it has the
\* scalar fields, the array shapes and the contents the source had, the
\* source owns none of them afterwards, and over construct, allocate, write,
\* move and destroy every buffer is released exactly once: never while an
\* array owns it, once when none does, never by a moved-from source.
C11_MoveTransfersOwnership ==
  /\ []OwnedOrReleasedOnce
  /\ [][/\ \A s, t \in Slots :
            MoveStep(s, t) =>
              /\ idx'[t] = idx[s]
              /\ \A k \in 1..Len(ArrayNames) :
                   /\ heap'[idx[s][ArrayNames[k]].buf] = heap[idx[s][ArrayNames[k]].buf]
                   /\ idx'[s][ArrayNames[k]].buf = 0
        /\ \A s \in Slots :
            (idx[s].state = "moved" /\ idx'[s].state = "gone") => heap' = heap]_vars

\* C11 witness: the index of slot 1 was written (its five arrays that have
\* elements), move-assigned over the live index of slot 2, whose seven
\* buffers went back, and then destroyed
C11_Witness ==
  /\ idx[1].state = "gone" /\ Live(2) /\ last = did("destroy", 1)
  /\ Len(heap) = 14
  /\ \A k \in 1..Len(ArrayNames) :
       /\ idx[2][ArrayNames[k]].buf = k
       /\ heap[k].released = 0
       /\ ArrayNames[k] \in Untouched => heap[k].init
       /\ heap[7 + k].released = 1

\* a step in which allocate replaced both arrays of the index in slot s and
\* returned
AllocateReturns(s) ==
  /\ Live(s) /\ Len(heap') = Len(heap) + 2
  /\ last'.op = "allocate" /\ last'.slot = s /\ last'.result = "ok"

\* C12: an allocate(n) that returns gives pq_dataset and indices two
\* buffers that did not exist before the call (so the index never owned
\* them), releases the two they replace, and copies nothing: the new
\* buffers are uninitialized whatever was written before, for every n, also
\* one the index had before.
C12_AllocateInstallsFreshBuffers ==
  [][\A s \in Slots :
       AllocateReturns(s) =>
         LET old == idx[s]
             new == idx'[s]
         IN  /\ new.pq_dataset_.buf \in (Len(heap) + 1)..Len(heap')
             /\ new.indices_.buf \in (Len(heap) + 1)..Len(heap')
             /\ new.pq_dataset_.buf # new.indices_.buf
             /\ heap'[old.pq_dataset_.buf].released = heap[old.pq_dataset_.buf].released + 1
             /\ heap'[old.indices_.buf].released = heap[old.indices_.buf].released + 1
             /\ heap'[old.pq_dataset_.buf].released = 1
             /\ heap'[old.indices_.buf].released = 1
             /\ ~heap'[new.pq_dataset_.buf].init /\ heap'[new.pq_dataset_.buf].released = 0
             /\ ~heap'[new.indices_.buf].init /\ heap'[new.indices_.buf].released = 0
             /\ new.pq_dataset_.ext[1] = U32(last'.n)
             /\ new.indices_.ext = <<U32(last'.n)>>]_vars

\* C12 witness: three allocates returned, the last an allocate(2), after
\* the arrays were written: the four buffers of the first two allocates
\* are released and the two of the third are uninitialized
C12_Witness ==
  /\ Live(1) /\ LastOk("allocate") /\ last.n = 2 /\ Len(heap) = 13
  /\ heap[8].released = 1 /\ heap[9].released = 1
  /\ heap[10].released = 1 /\ heap[11].released = 1
  /\ idx[1].pq_dataset_.buf = 12 /\ idx[1].indices_.buf = 13
  /\ ~heap[12].init /\ ~heap[13].init
  /\ \A name \in Untouched : Cell(1, name).init

\* C13: make_device_aligned_matrix_view on an address that is no multiple of
\* 128 fails and gives no view; on a multiple of 128 it returns a view with
\* the given n_rows and n_cols.
C13_MisalignedRejected ==
  calc.pc # "call" =>
    /\ calc.ptr % 128 # 0 => (calc.pc = "aborted" /\ calc.view = NoView)
    /\ calc.ptr % 128 = 0 =>
         /\ calc.pc = "returned"
         /\ calc.view = [data_handle |-> calc.ptr, extents |-> <<calc.n_rows, calc.n_cols>>]

DeviceView  == [mdspan |-> TRUE, mem |-> "device"]
ManagedView == [mdspan |-> TRUE, mem |-> "managed"]
HostView    == [mdspan |-> TRUE, mem |-> "host"]
NoMdspan    == [mdspan |-> FALSE, mem |-> "none"]

\* C14: is_device_mdspan_v of a list of types is true exactly when every
\* type of the list is a view tagged device or managed: a host view or a
\* type that is no view makes it false, wherever it stands in the list; and
\* a managed view alone satisfies both is_device_mdspan_v and the host
\* requirement.
C14_DeviceRequirement ==
  calc.pc = "done" =>
    LET Tn == calc.Tn
    IN  /\ calc.device <=> \A k \in 1..Len(Tn) : Tn[k] \in {DeviceView, ManagedView}
        /\ (\E k \in 1..Len(Tn) : Tn[k] \in {HostView, NoMdspan}) => ~calc.device
        /\ Tn = <<ManagedView>> => (calc.device /\ calc.host)
        /\ Tn = <<HostView>> => (~calc.device /\ calc.host)
        /\ Tn = <<DeviceView>> => (calc.device /\ ~calc.host)

\* C14 witness: a device view and a managed view were accepted together
C14_Witness ==
  calc.pc = "done" /\ calc.Tn = <<DeviceView, ManagedView>> /\ calc.device

\* the scalar fields of an index
Scalars(i) ==
  <<metric(i), codebook_kind(i), n_lists(i), dim(i), pq_bits(i), pq_dim(i),
    n_nonempty_lists(i)>>

\* C15: no allocate and no write through an accessor's view changes
\* metric, codebook_kind, n_lists, dim, pq_bits, pq_dim or
\* n_nonempty_lists, and so the validation at the end of allocate never
\* fails: an allocate on a constructed index returns or throws for an
\* allocation, whatever n and however many allocates came before.
C15_AllocateKeepsScalars ==
  /\ [](last.op = "allocate" => last.result \in {"ok", "bad_alloc"})
  /\ [][\A s \in Slots :
          Live(s) =>
            /\ Live(s)'
            /\ Scalars(idx'[s]) = Scalars(idx[s])
            /\ check_consistency(idx'[s])]_vars

\* C15 witness: the third allocate on an index with pq_bits = 8 and
\* pq_dim = 3 returned, after writes through the views
C15_Witness ==
  /\ Live(1) /\ LastOk("allocate") /\ Len(heap) = 13 /\ last.n = 0
  /\ pq_bits(idx[1]) = U32(8) /\ pq_dim(idx[1]) = U32(3)
  /\ Cell(1, "pq_centers_").init /\ Cell(1, "list_offsets_").init

Replaced == {"pq_dataset_", "indices_"}

\* C16: an accessor gives a view of the buffer the index owns at the call
\* and allocates nothing, and a store through the view is a store into the
\* array; after an allocate that returned, each view of pq_dataset or
\* indices taken before it refers to a released buffer that is not the
\* index's, while a view of one of the other five arrays refers, at any
\* time, to the buffer the index owns.
C16_ViewsFollowBuffers ==
  /\ [](\A w \in views :
          /\ w.name \in Untouched =>
               (Live(w.slot) /\ w.buf = idx[w.slot][w.name].buf /\ heap[w.buf].released = 0)
          /\ w.name \in Replaced =>
               (w.buf = idx[w.slot][w.name].buf <=> heap[w.buf].released = 0))
  /\ [][/\ \A w \in views' \ views :
            /\ w.buf = idx[w.slot][w.name].buf
            /\ heap' = heap /\ idx' = idx
        /\ \A s \in Slots :
            AllocateReturns(s) =>
              \A w \in views :
                (w.slot = s /\ w.name \in Replaced) =>
                  /\ heap'[w.buf].released = 1
                  /\ w.buf # idx'[s][w.name].buf
        /\ \A w \in views :
            (views' = views /\ idx' = idx /\ heap'[w.buf] # heap[w.buf]) =>
              (w.buf = idx[w.slot][w.name].buf /\ heap'[w.buf].init)]_vars

\* C16 witness: views of pq_dataset, indices and centers were taken after a
\* first allocate, centers was written through its view, and a second
\* allocate returned: the first two views are stale, the third is not
C16_Witness ==
  /\ Live(1) /\ LastOk("allocate") /\ Len(heap) = 11
  /\ views = {[slot |-> 1, name |-> "pq_dataset_", buf |-> 8],
              [slot |-> 1, name |-> "indices_", buf |-> 9],
              [slot |-> 1, name |-> "centers_", buf |-> 6]}
  /\ heap[8].released = 1 /\ heap[9].released = 1
  /\ idx[1].pq_dataset_.buf = 10 /\ idx[1].indices_.buf = 11
  /\ idx[1].centers_.buf = 6 /\ heap[6].init

====
